---- MODULE Spec2Model ----
(***************************************************************************)
(* Model of the tech-trend-blog request handlers (functions/[[path]].ts):  *)
(* date window resolution, the D1 read of trend_entries, the rendering of  *)
(* the entry list and the five GET routes.                                 *)
(*                                                                         *)
(* Strings are sequences of UTF-16 code units (48..57 are the digits, 45   *)
(* is the hyphen), so that the format check and JavaScript's relational    *)
(* comparison of strings are computed as the engine computes them.         *)
(* Instants are whole minutes since the Unix epoch (getTime() / 60000).    *)
(***************************************************************************)
EXTENDS Integers, Sequences, FiniteSets, TLC

\* ------------------------------------------------------------------ bounds
MaxReqs == 2
MaxTicks == 1

\* ----------------------------------------------------------------- strings
\* The value of an absent query parameter or binding (no string has a
\* negative code unit).
Undefined == <<-1>>

EmptyStr == <<>>

Pad2(n) == <<48 + ((n \div 10) % 10), 48 + (n % 10)>>

Pad4(n) == <<48 + ((n \div 1000) % 10), 48 + ((n \div 100) % 10)>> \o Pad2(n)

\* The text "YYYY-MM-DD" of three numbers, zero padded.
Ymd(y, m, d) == Pad4(y) \o <<45>> \o Pad2(m) \o <<45>> \o Pad2(d)

\* ------------------------------------------------------- Date -> civil date
\* Day, month and year of a day number (days since 1970-01-01), as
\* Date.prototype.toISOString derives them (proleptic Gregorian calendar).
CivilFromDays(days) ==
    LET z   == days + 719468
        era == z \div 146097
        doe == z - era * 146097
        yoe == (doe - doe \div 1460 + doe \div 36524 - doe \div 146096) \div 365
        doy == doe - (365 * yoe + yoe \div 4 - yoe \div 100)
        mp  == (5 * doy + 2) \div 153
        d   == doy - (153 * mp + 2) \div 5 + 1
        m   == IF mp < 10 THEN mp + 3 ELSE mp - 9
        y   == yoe + era * 400 + (IF m <= 2 THEN 1 ELSE 0)
    IN  [y |-> y, m |-> m, d |-> d]

\* toISOString().slice(0, 10) of an instant.
IsoDate(t) ==
    LET c == CivilFromDays(t \div 1440)
    IN  Ymd(c.y, c.m, c.d)

formatJstDate(t) == IsoDate(t + 9 * 60)

\* ------------------------------------------------------------ resolveDate
IsDigit(c) == c >= 48 /\ c <= 57

isValidDateStringUnanchored(value) ==
    /\ Len(value) >= 10
    /\ \A i \in 1..10 : IF i \in {5, 8} THEN value[i] = 45 ELSE IsDigit(value[i])

\* /^\d{4}-\d{2}-\d{2}$/.test(value)
isValidDateString(value) ==
    /\ Len(value) = 10
    /\ \A i \in 1..10 : IF i \in {5, 8} THEN value[i] = 45 ELSE IsDigit(value[i])

\* !input is true of undefined and of the empty string.
Falsy(input) == input = Undefined \/ input = EmptyStr

resolveDate(input, fallback) ==
    IF Falsy(input) \/ ~isValidDateString(input) THEN fallback ELSE input

\* ------------------------------------------------------ validateDateRange
\* a < b on strings: the first differing code unit decides, a proper prefix
\* is smaller.
RECURSIVE JsLess(_, _)
JsLess(a, b) ==
    IF b = <<>> THEN FALSE
    ELSE IF a = <<>> THEN TRUE
    ELSE IF Head(a) # Head(b) THEN Head(a) < Head(b)
    ELSE JsLess(Tail(a), Tail(b))

validateDateRangeExclusiveMax(date, minDate, maxDate) ==
    ~JsLess(date, minDate) /\ JsLess(date, maxDate)

validateDateRangeNoMin(date, minDate, maxDate) ==
    ~JsLess(maxDate, date)

\* date >= minDate && date <= maxDate
validateDateRange(date, minDate, maxDate) ==
    ~JsLess(date, minDate) /\ ~JsLess(maxDate, date)

\* ------------------------------------------------------------ the D1 table
D24 == Ymd(2025, 12, 24)
D25 == Ymd(2025, 12, 25)
D31 == Ymd(2025, 12, 31)
D0101 == Ymd(2026, 1, 1)

\* A row of trend_entries; id follows the insertion order.
Row(id, date, slot) ==
    [id |-> id, date |-> date, slot |-> slot,
     raw_response |-> [markdown |-> id],
     fetched_at |-> IF slot = 0 THEN "00:00:07Z" ELSE "12:00:09Z"]

\* Contents of trend_entries, in insertion order. At most one row per date
\* and slot; the ingestion that writes them is outside these handlers.
Tables ==
    { <<Row(1, D25, 0), Row(2, D25, 1), Row(3, D0101, 0)>>,
      <<Row(1, D25, 1), Row(2, D0101, 1), Row(3, D25, 0), Row(4, D0101, 0)>>,
      <<Row(1, D0101, 1), Row(2, D31, 0), Row(3, D24, 0), Row(4, D31, 1)>> }

\* WHERE date = ?
WhereDate(rows, date) == SelectSeq(rows, LAMBDA row : row.date = date)

RECURSIVE InsertBySlot(_, _)
InsertBySlot(sorted, row) ==
    IF sorted = <<>> THEN <<row>>
    ELSE IF row.slot < Head(sorted).slot THEN <<row>> \o sorted
    ELSE <<Head(sorted)>> \o InsertBySlot(Tail(sorted), row)

OrderByNothing(rows) == rows

RECURSIVE OrderBySlotAsc(_)

\* ORDER BY slot ASC
OrderBySlotAsc(rows) ==
    IF rows = <<>> THEN <<>>
    ELSE InsertBySlot(OrderBySlotAsc(SubSeq(rows, 1, Len(rows) - 1)), rows[Len(rows)])

\* The statement of fetchEntriesForDate run on a table.
SelectEntries(table, date) == OrderBySlotAsc(WhereDate(table, date))

\* What .all() can resolve to: the rows, and for an empty result possibly
\* an object whose results member is absent.
D1Results(table, date) ==
    LET rows == SelectEntries(table, date)
    IN  {[has |-> TRUE, results |-> rows]}
        \cup (IF rows = <<>> THEN {[has |-> FALSE, results |-> <<>>]} ELSE {})

\* results ?? []
ResultsOrEmpty(res) == IF res.has THEN res.results ELSE <<>>

\* -------------------------------------------------------------- rendering
\* marked.parse: the HTML of a markdown text (an external converter).
marked(raw_response) == [html |-> raw_response.markdown]

renderEntryHtml(entry) ==
    [tag |-> "article",
     slotLabel |-> IF entry.slot = 0 THEN "00:00" ELSE "12:00",
     fetched_at |-> entry.fetched_at,
     body |-> marked(entry.raw_response)]

NoDataParagraph == [tag |-> "p", class |-> "text-muted", text |-> "no data for this date"]

OutOfRangeParagraph == [tag |-> "p", class |-> "text-danger", text |-> "out of range"]

renderEntriesReversed(entries) ==
    IF Len(entries) = 0 THEN <<NoDataParagraph>>
    ELSE [i \in 1..Len(entries) |-> renderEntryHtml(entries[Len(entries) + 1 - i])]

renderEntries(entries) ==
    IF Len(entries) = 0 THEN <<NoDataParagraph>>
    ELSE [i \in 1..Len(entries) |-> renderEntryHtml(entries[i])]

\* html`${renderEntries(entries)}`
renderEntriesPartial(entries) == renderEntries(entries)

renderPageSwapped(date, entries, minDate, maxDate) ==
    <<[tag |-> "html", date |-> date, min |-> maxDate, max |-> minDate,
       entryContent |-> renderEntries(entries)]>>

renderPage(date, entries, minDate, maxDate) ==
    <<[tag |-> "html", date |-> date, min |-> minDate, max |-> maxDate,
       entryContent |-> renderEntries(entries)]>>

\* c.html(...) and c.json(...). A body is a sequence of elements: the blocks
\* of a fragment, the one document of a page, the one object of a JSON body.
Html(body) == [type |-> "text/html", body |-> body]

Json(body) == [type |-> "application/json", body |-> <<body>>]

NoResponse == [type |-> "none", body |-> <<>>]

\* ------------------------------------------------------------------ state
VARIABLES
    clock,           \* the instant new Date() returns, in minutes
    EARLIEST_DATE,   \* the optional binding c.env.EARLIEST_DATE
    trend_entries,   \* the rows of the D1 table, in insertion order
    req              \* per request: where its handler is, and its locals

vars == <<clock, EARLIEST_DATE, trend_entries, req>>

DEFAULT_EARLIEST_DATE == Ymd(2025, 12, 25)

\* 2025-12-31T14:59Z, one minute before the UTC+9 date becomes 2026-01-01.
ClockStart == 20453 * 1440 + 14 * 60 + 59

Reqs == 1..MaxReqs

\* Values of ?date= : absent, empty, dates around the window, a text that
\* matches the pattern but names no calendar day, and malformed texts.
QueryInputs ==
    { Undefined, EmptyStr, D24, D25, D31, D0101, Ymd(2099, 1, 1),
      Ymd(2025, 13, 40),
      D0101 \o <<49>>,
      Pad4(2026) \o <<47>> \o Pad2(1) \o <<47>> \o Pad2(1) }

\* Values of the :date path segment: never absent, never empty, no slash.
PathInputs == {q \in QueryInputs : ~Falsy(q) /\ \A i \in 1..Len(q) : q[i] # 47}

Configured == {Undefined, Ymd(2025, 12, 30)}

Idle ==
    [pc |-> "idle", route |-> "", input |-> Undefined, at |-> 0,
     minDate |-> <<>>, maxDate |-> <<>>, date |-> <<>>,
     reads |-> <<>>, entries |-> <<>>, response |-> NoResponse]

Init ==
    /\ clock = ClockStart
    /\ EARLIEST_DATE \in Configured
    /\ trend_entries \in Tables
    /\ req = [r \in Reqs |-> Idle]

\* --------------------------------------------------------- handler pieces
NowAtLoad == ClockStart

\* new Date()
Now == clock

MinDateIgnoringEnv(configured) == DEFAULT_EARLIEST_DATE

\* c.env.EARLIEST_DATE ?? DEFAULT_EARLIEST_DATE
MinDate(configured) ==
    IF configured = Undefined THEN DEFAULT_EARLIEST_DATE ELSE configured

\* The first three statements of every handler.
Locals(route, input) ==
    LET maxDate == formatJstDate(Now)
    IN  [pc |-> "done", route |-> route, input |-> input, at |-> clock,
         minDate |-> MinDate(EARLIEST_DATE), maxDate |-> maxDate,
         date |-> resolveDate(input, maxDate),
         reads |-> <<>>, entries |-> <<>>, response |-> NoResponse]

\* The handler suspended at await fetchEntriesForDate(c.env.DB, date).
Awaiting(l) == [l EXCEPT !.pc = "awaiting", !.reads = Append(l.reads, l.date)]

Responded(l, response) == [l EXCEPT !.pc = "done", !.response = response]

\* The request that is handled next.
Fresh(r) == req[r].pc = "idle" /\ \A o \in Reqs : o < r => req[o].pc # "idle"

LastStarted == CHOOSE r \in Reqs : req[r].pc # "idle" /\ \A o \in Reqs : o > r => req[o].pc = "idle"

SharedFrame(r) == [req[r] EXCEPT !.date = req[LastStarted].date]

\* The locals a handler resumes with after its await.
Frame(r) == req[r]

RecoveredByPlaceholder(l) == Responded(l, Html(renderEntries(<<>>)))

\* A rejected await in a handler with no try/catch: the handler rejects.
Rejected(l) == [l EXCEPT !.pc = "failed"]

\* ---------------------------------------------------------------- actions
\* app.get("/")
GetRoot(r, q) ==
    /\ Fresh(r)
    /\ LET l == Locals("/", q)
       IN  req' = [req EXCEPT ![r] =
                IF validateDateRange(l.date, l.minDate, l.maxDate)
                THEN Awaiting(l)
                ELSE Responded(l, Html(renderPage(l.date, <<>>, l.minDate, l.maxDate)))]
    /\ UNCHANGED <<clock, EARLIEST_DATE, trend_entries>>

\* app.get("/date/:date")
GetDate(r, p) ==
    /\ Fresh(r)
    /\ LET l == Locals("/date/:date", p)
       IN  req' = [req EXCEPT ![r] =
                IF validateDateRange(l.date, l.minDate, l.maxDate)
                THEN Awaiting(l)
                ELSE Responded(l, Html(renderPage(l.date, <<>>, l.minDate, l.maxDate)))]
    /\ UNCHANGED <<clock, EARLIEST_DATE, trend_entries>>

\* app.get("/api/entry"), first route set
GetApiEntry(r, q) ==
    /\ Fresh(r)
    /\ LET l == Locals("/api/entry", q)
       IN  req' = [req EXCEPT ![r] =
                IF ~validateDateRange(l.date, l.minDate, l.maxDate)
                THEN Responded(l, Html(<<OutOfRangeParagraph>>))
                ELSE Awaiting(l)]
    /\ UNCHANGED <<clock, EARLIEST_DATE, trend_entries>>

\* app.get("/api/entry"), second route set
GetApiEntry2(r, q) ==
    /\ Fresh(r)
    /\ LET l == Locals("/api/entry#2", q)
       IN  req' = [req EXCEPT ![r] =
                IF ~validateDateRange(l.date, l.minDate, l.maxDate)
                THEN Responded(l, Html(<<OutOfRangeParagraph>>))
                ELSE Awaiting(l)]
    /\ UNCHANGED <<clock, EARLIEST_DATE, trend_entries>>

\* app.get("/api/meta")
GetApiMeta(r, q) ==
    /\ Fresh(r)
    /\ LET l == Locals("/api/meta", q)
       IN  req' = [req EXCEPT ![r] =
                Responded(l, Json([minDate |-> l.minDate, maxDate |-> l.maxDate,
                                   defaultDate |-> l.date]))]
    /\ UNCHANGED <<clock, EARLIEST_DATE, trend_entries>>

\* The rest of a handler once .all() has resolved.
Resumed(l, entries) ==
    LET k == [l EXCEPT !.entries = entries]
    IN  CASE l.route \in {"/", "/date/:date"} ->
                Responded(k, Html(renderPage(l.date, entries, l.minDate, l.maxDate)))
          [] l.route = "/api/entry" -> Responded(k, Html(renderEntriesPartial(entries)))
          [] l.route = "/api/entry#2" -> Responded(k, Html(renderEntries(entries)))

\* D1 answers the statement of a suspended handler.
D1Resolve(r) ==
    /\ req[r].pc = "awaiting"
    /\ \E res \in D1Results(trend_entries, req[r].reads[Len(req[r].reads)]) :
          req' = [req EXCEPT ![r] = Resumed(Frame(r), ResultsOrEmpty(res))]
    /\ UNCHANGED <<clock, EARLIEST_DATE, trend_entries>>

\* D1 fails the statement of a suspended handler.
D1Reject(r) ==
    /\ req[r].pc = "awaiting"
    /\ req' = [req EXCEPT ![r] = Rejected(Frame(r))]
    /\ UNCHANGED <<clock, EARLIEST_DATE, trend_entries>>

\* Time passes.
Tick ==
    /\ clock < ClockStart + MaxTicks
    /\ clock' = clock + 1
    /\ UNCHANGED <<EARLIEST_DATE, trend_entries, req>>

Next ==
    \/ \E r \in Reqs, q \in QueryInputs : GetRoot(r, q)
    \/ \E r \in Reqs, p \in PathInputs : GetDate(r, p)
    \/ \E r \in Reqs, q \in QueryInputs : GetApiEntry(r, q)
    \/ \E r \in Reqs, q \in QueryInputs : GetApiEntry2(r, q)
    \/ \E r \in Reqs, q \in QueryInputs : GetApiMeta(r, q)
    \/ \E r \in Reqs : D1Resolve(r)
    \/ \E r \in Reqs : D1Reject(r)
    \/ Tick

Spec == Init /\ [][Next]_vars

\* ===================================================== properties checked
\* a <= b in lexicographic order of code units: at the first place where
\* they differ a has the smaller unit, or a is a prefix of b.
LexLeq(a, b) ==
    LET both == 1..(IF Len(a) < Len(b) THEN Len(a) ELSE Len(b))
        diff == {k \in both : a[k] # b[k]}
    IN  IF diff = {} THEN Len(a) <= Len(b)
        ELSE \E k \in diff : (\A j \in diff : k <= j) /\ a[k] < b[k]

InWindow(d, lo, hi) == LexLeq(lo, d) /\ LexLeq(d, hi)

\* The numbers a text of ten code units spells at the places of YYYY-MM-DD.
YearOf(s) == 1000 * (s[1] - 48) + 100 * (s[2] - 48) + 10 * (s[3] - 48) + (s[4] - 48)
MonthOf(s) == 10 * (s[6] - 48) + (s[7] - 48)
DayOf(s) == 10 * (s[9] - 48) + (s[10] - 48)

\* s is four digits, a hyphen, two digits, a hyphen, two digits.
MatchesPattern(s) ==
    /\ s # Undefined
    /\ Len(s) = 10
    /\ YearOf(s) \in 0..9999 /\ MonthOf(s) \in 0..99 /\ DayOf(s) \in 0..99
    /\ s = Ymd(YearOf(s), MonthOf(s), DayOf(s))

IsLeap(y) == y % 4 = 0 /\ (y % 100 # 0 \/ y % 400 = 0)

DaysIn(y, m) ==
    IF m = 2 THEN (IF IsLeap(y) THEN 29 ELSE 28)
    ELSE IF m \in {4, 6, 9, 11} THEN 30 ELSE 31

\* Days since 1970-01-01 of a civil date.
DaysFromCivil(y, m, d) ==
    LET yy  == IF m <= 2 THEN y - 1 ELSE y
        era == yy \div 400
        yoe == yy - era * 400
        doy == (153 * (IF m > 2 THEN m - 3 ELSE m + 9) + 2) \div 5 + d - 1
        doe == yoe * 365 + yoe \div 4 - yoe \div 100 + doy
    IN  era * 146097 + doe - 719468

IsCalendarDate(s) ==
    /\ MatchesPattern(s)
    /\ MonthOf(s) \in 1..12
    /\ DayOf(s) \in 1..DaysIn(YearOf(s), MonthOf(s))

DayNumber(s) == DaysFromCivil(YearOf(s), MonthOf(s), DayOf(s))

\* The day number of the UTC+9 civil date at instant t: it changes at 15:00 UTC.
JstDay(t) == IF t % 1440 >= 15 * 60 THEN t \div 1440 + 1 ELSE t \div 1440

\* s is the text of the UTC+9 civil date at instant t.
IsJstDateOf(s, t) == IsCalendarDate(s) /\ DayNumber(s) = JstDay(t)

Started == {r \in Reqs : req[r].pc # "idle"}

EntryRoutes == {"/api/entry", "/api/entry#2"}

PageRoutes == {"/", "/date/:date"}

OnRoutes(routes) == {r \in Started : req[r].route \in routes}

Resolved(r) == IF MatchesPattern(req[r].input) THEN req[r].input ELSE req[r].maxDate

RowsOf(date) == {trend_entries[i] : i \in {j \in DOMAIN trend_entries : trend_entries[j].date = date}}

\* The response of a request handled alone at instant t, the read succeeding.
Solo(table, configured, route, input, t) ==
    LET minDate == MinDate(configured)
        maxDate == formatJstDate(t)
        date    == resolveDate(input, maxDate)
        inRange == validateDateRange(date, minDate, maxDate)
        entries == IF inRange THEN SelectEntries(table, date) ELSE <<>>
    IN  CASE route \in PageRoutes -> Html(renderPage(date, entries, minDate, maxDate))
          [] route \in EntryRoutes ->
                IF inRange THEN Html(renderEntries(entries)) ELSE Html(<<OutOfRangeParagraph>>)
          [] route = "/api/meta" ->
                Json([minDate |-> minDate, maxDate |-> maxDate, defaultDate |-> date])

\* C1: every GET /api/entry request whose resolved date is outside
\* [minDate, maxDate] is answered with the fixed out-of-range fragment and has
\* read nothing; one whose resolved date is inside has read the store for
\* exactly that date, and once the rows are returned its response is the
\* rendered list of those rows, with no page wrapper.
C1_EntryFragment ==
    \A r \in OnRoutes(EntryRoutes) :
        LET q == req[r]
        IN  /\ q.date = Resolved(r)
            /\ IF InWindow(q.date, q.minDate, q.maxDate)
               THEN /\ q.reads = <<q.date>>
                    /\ q.pc = "done" =>
                          /\ q.entries = SelectEntries(trend_entries, q.date)
                          /\ q.response = Html(renderEntries(q.entries))
                          /\ \A i \in DOMAIN q.response.body : q.response.body[i].tag # "html"
               ELSE /\ q.pc = "done"
                    /\ q.reads = <<>>
                    /\ q.response = Html(<<OutOfRangeParagraph>>)

\* An out-of-range fragment was returned without a read, and a fragment with
\* rows was returned by another request.
C1_Witness ==
    \E r, o \in OnRoutes(EntryRoutes) :
        /\ req[r].pc = "done" /\ req[r].reads = <<>>
        /\ req[r].input = Ymd(2099, 1, 1)
        /\ req[o].pc = "done" /\ req[o].reads # <<>> /\ Len(req[o].entries) = 2

\* C2: every full-page request resolves its date with fallback maxDate; out
\* of the window it reads nothing and is answered at once with the page of an
\* empty entry list; inside it reads the store for that date and, the rows
\* returned, is answered with the page of those rows. The answer is always an
\* HTML document carrying the resolved date, minDate and maxDate.
C2_FullPage ==
    \A r \in OnRoutes(PageRoutes) :
        LET q == req[r]
            page == q.response.body[1]
        IN  /\ q.date = Resolved(r)
            /\ IF InWindow(q.date, q.minDate, q.maxDate)
               THEN /\ q.reads = <<q.date>>
                    /\ q.pc = "done" => q.entries = SelectEntries(trend_entries, q.date)
               ELSE /\ q.pc = "done"
                    /\ q.reads = <<>>
                    /\ q.entries = <<>>
            /\ q.pc = "done" =>
                  /\ q.response.type = "text/html"
                  /\ Len(q.response.body) = 1
                  /\ page.tag = "html"
                  /\ page.date = q.date /\ page.min = q.minDate /\ page.max = q.maxDate
                  /\ page.entryContent = renderEntries(q.entries)

\* A page with rows and a page of an out-of-range date were both returned.
C2_Witness ==
    \E r, o \in OnRoutes(PageRoutes) :
        /\ req[r].pc = "done" /\ req[r].reads # <<>> /\ req[r].entries # <<>>
        /\ req[o].pc = "done" /\ req[o].reads = <<>>
        /\ req[o].input = D24 /\ req[o].date = D24
        /\ req[o].response.body[1].entryContent = <<NoDataParagraph>>

\* C3: GET /api/meta answers {minDate, maxDate, defaultDate}: minDate is
\* EARLIEST_DATE, or 2025-12-25 when it is unset; maxDate is the UTC+9 date of
\* the request's instant; defaultDate is the date query when it matches the
\* pattern and maxDate otherwise, so maxDate when there is no query. The
\* store is not read.
C3_Meta ==
    \A r \in OnRoutes({"/api/meta"}) :
        LET q == req[r]
            m == q.response.body[1]
        IN  /\ q.pc = "done"
            /\ q.reads = <<>>
            /\ q.response.type = "application/json"
            /\ Len(q.response.body) = 1
            /\ m.minDate = (IF EARLIEST_DATE = Undefined THEN Ymd(2025, 12, 25) ELSE EARLIEST_DATE)
            /\ IsJstDateOf(m.maxDate, q.at)
            /\ m.defaultDate = (IF MatchesPattern(q.input) THEN q.input ELSE m.maxDate)
            /\ q.input = Undefined => m.defaultDate = m.maxDate

\* /api/meta was answered without a query while EARLIEST_DATE is unset, after
\* the UTC+9 date became 2026-01-01.
C3_Witness ==
    \E r \in OnRoutes({"/api/meta"}) :
        /\ req[r].input = Undefined
        /\ EARLIEST_DATE = Undefined
        /\ req[r].response.body[1].minDate = Ymd(2025, 12, 25)
        /\ req[r].response.body[1].defaultDate = D0101

\* C4: resolveDate returns its input unchanged when the input is four
\* digits, a hyphen, two digits, a hyphen, two digits (2025-13-40 included)
\* and the fallback for every other input, undefined and the empty text
\* included; a request with an empty date is answered as one without date.
C4_ResolveDate ==
    \A r \in Started :
        LET q == req[r]
        IN  /\ q.date = (IF MatchesPattern(q.input) THEN q.input ELSE q.maxDate)
            /\ resolveDate(q.input, q.minDate) =
                  (IF MatchesPattern(q.input) THEN q.input ELSE q.minDate)
            /\ q.input \in {Undefined, EmptyStr} => q.date = q.maxDate
            /\ q.input = Ymd(2025, 13, 40) => q.date = Ymd(2025, 13, 40)
            /\ (q.pc = "done" /\ q.input = EmptyStr) =>
                  q.response = Solo(trend_entries, EARLIEST_DATE, q.route, Undefined, q.at)

\* One request with an empty date and one with 2025-13-40 were answered.
C4_Witness ==
    \E r, o \in Started :
        /\ req[r].pc = "done" /\ req[r].input = EmptyStr /\ req[r].reads # <<>>
        /\ req[o].pc = "done" /\ req[o].input = Ymd(2025, 13, 40)

\* C5: the range check is true exactly when min <= d and d <= max in
\* lexicographic order, both bounds inclusive: min and max are in range, the
\* day before min and the day after max are not.
C5_DateRange ==
    \A r \in Started :
        LET lo == req[r].minDate
            hi == req[r].maxDate
            inside  == {lo, hi}
            outside == {IsoDate((DayNumber(lo) - 1) * 1440), IsoDate((DayNumber(hi) + 1) * 1440)}
        IN  /\ \A d \in inside \cup outside \cup {req[r].date} :
                  LET v == validateDateRange(d, lo, hi)
                  IN  /\ v = InWindow(d, lo, hi)
                      /\ d \in inside => v
                      /\ d \in outside => ~v
            /\ req[r].route # "/api/meta" =>
                  (req[r].reads # <<>>) = InWindow(req[r].date, lo, hi)

\* The check was applied to a date equal to maxDate and to one equal to minDate.
C5_Witness ==
    \E r, o \in Started :
        /\ req[r].route # "/api/meta" /\ req[r].date = req[r].maxDate /\ req[r].reads # <<>>
        /\ req[o].route # "/api/meta" /\ req[o].date = req[o].minDate /\ req[o].reads # <<>>
        /\ req[o].minDate # req[o].maxDate

Ascending(e) == \A i, j \in DOMAIN e : i < j => e[i].slot < e[j].slot

\* C6: fetchEntriesForDate returns exactly the stored rows whose date is the
\* argument, each once, in ascending slot order whatever the insertion order,
\* and the empty sequence when no row matches.
C6_Fetch ==
    /\ \A d \in QueryInputs \ {Undefined} :
          LET e == SelectEntries(trend_entries, d)
          IN  /\ {e[i] : i \in DOMAIN e} = RowsOf(d)
              /\ Len(e) = Cardinality(RowsOf(d))
              /\ Ascending(e)
              /\ \A res \in D1Results(trend_entries, d) :
                    RowsOf(d) = {} => ResultsOrEmpty(res) = <<>>
    /\ \A r \in Started :
          (req[r].pc = "done" /\ req[r].reads # <<>>) =>
              LET e == req[r].entries
              IN  /\ {e[i] : i \in DOMAIN e} = RowsOf(req[r].date)
                  /\ Len(e) = Cardinality(RowsOf(req[r].date))
                  /\ Ascending(e)

\* Two rows, slot 1 inserted before slot 0, were returned as [slot 0, slot 1],
\* and a read that matched no row returned the empty sequence.
C6_Witness ==
    \E r, o \in Started :
        /\ req[r].pc = "done" /\ Len(req[r].entries) = 2
        /\ req[r].entries[1].slot = 0 /\ req[r].entries[2].slot = 1
        /\ req[r].entries[1].id > req[r].entries[2].id
        /\ req[o].pc = "done" /\ req[o].reads # <<>> /\ req[o].entries = <<>>

\* The entry list a response shows.
Shown(r) ==
    IF req[r].route \in PageRoutes THEN req[r].response.body[1].entryContent
    ELSE req[r].response.body

\* C7: renderEntries of the empty sequence is the one fixed placeholder,
\* whatever date was requested; of a non-empty sequence it is one block per
\* entry, in the order of the sequence, none dropped and none repeated.
C7_RenderEntries ==
    \A r \in Started :
        (/\ req[r].pc = "done"
         /\ req[r].route # "/api/meta"
         /\ (req[r].route \in EntryRoutes => req[r].reads # <<>>)) =>
            LET e == req[r].entries
                h == Shown(r)
            IN  IF e = <<>> THEN h = <<NoDataParagraph>>
                ELSE /\ Len(h) = Len(e)
                     /\ \A i \in DOMAIN e :
                           /\ h[i].tag = "article"
                           /\ h[i].body = marked(e[i].raw_response)
                           /\ h[i].fetched_at = e[i].fetched_at
                           /\ h[i].slotLabel = (IF e[i].slot = 0 THEN "00:00" ELSE "12:00")

\* An empty and a two-entry sequence were rendered.
C7_Witness ==
    \E r, o \in Started :
        /\ req[r].pc = "done" /\ req[r].reads # <<>> /\ req[r].entries = <<>>
        /\ Shown(r) = <<NoDataParagraph>>
        /\ req[o].pc = "done" /\ Len(req[o].entries) = 2 /\ Len(Shown(o)) = 2

RejectedAsLate(r) ==
    /\ req[r].pc = "done" /\ req[r].route # "/api/meta" /\ req[r].reads = <<>>
    /\ ~LexLeq(req[r].date, req[r].maxDate)

\* C8: the maxDate of every request is the UTC+9 civil date of the instant
\* the request is handled (it changes at 15:00 UTC), so a date one request
\* rejected as later than maxDate is accepted by a request handled once the
\* UTC+9 date has reached it.
C8_MaxDatePerRequest ==
    /\ \A r \in Started : IsJstDateOf(req[r].maxDate, req[r].at)
    /\ \A r, o \in Started :
          (/\ RejectedAsLate(r)
           /\ req[o].route # "/api/meta"
           /\ req[o].date = req[r].date
           /\ IsCalendarDate(req[o].date)
           /\ LexLeq(req[o].minDate, req[o].date)
           /\ JstDay(req[o].at) >= DayNumber(req[o].date)) =>
              req[o].reads = <<req[o].date>>

\* 2026-01-01 was rejected at 14:59 UTC and accepted at 15:00 UTC.
C8_Witness ==
    \E r, o \in Started :
        /\ RejectedAsLate(r) /\ req[r].date = D0101 /\ req[r].maxDate = D31
        /\ req[o].date = D0101 /\ req[o].maxDate = D0101
        /\ req[o].at = req[r].at + 1
        /\ req[o].reads = <<D0101>>

\* C9: when the read of the store fails, the handler fails with it: it has
\* read the store once and returns no page, fragment, placeholder or warning;
\* no request reads the store more than once.
C9_ReadFailure ==
    [][\A r \in Reqs :
          /\ Len(req'[r].reads) <= 1
          /\ D1Reject(r) =>
                /\ req'[r].pc = "failed"
                /\ req'[r].response = NoResponse
                /\ req'[r].reads = req[r].reads /\ Len(req[r].reads) = 1
          /\ req[r].pc = "failed" => req'[r] = req[r]]_vars

\* The read of a page request and of a fragment request failed.
C9_Witness ==
    \E r, o \in Reqs :
        /\ req[r].pc = "failed" /\ req[r].route \in PageRoutes
        /\ req[o].pc = "failed" /\ req[o].route \in EntryRoutes
        /\ req[r].response = NoResponse /\ req[o].response = NoResponse

\* C10: in every interleaving, the response of each request is the response
\* it would get if handled alone at its instant, and no step of any request
\* changes the store.
C10_Independence ==
    [][/\ trend_entries' = trend_entries
       /\ \A r \in Reqs :
             req'[r].pc = "done" =>
                req'[r].response =
                    Solo(trend_entries', EARLIEST_DATE', req'[r].route, req'[r].input, req'[r].at)]_vars

\* A later page request for another date was answered while an earlier one,
\* started at the same instant, was still suspended at its read.
C10_Witness ==
    \E r, o \in Reqs :
        /\ r < o
        /\ req[r].pc = "awaiting" /\ req[o].pc = "done"
        /\ req[o].reads # <<>> /\ req[o].entries # <<>>
        /\ req[r].date # req[o].date
        /\ req[r].route \in PageRoutes /\ req[o].route \in PageRoutes
        /\ req[r].at = req[o].at

====
